---- MODULE Spec2Model ----
(***************************************************************************)
(* Brownian motion simulation notebook (bm-simulation.ipynb).              *)
(*                                                                         *)
(* The notebook is a straight-line program of cells: global parameters,    *)
(* regular Brownian motion, the alpha list, the fractional Brownian motion *)
(* loop, the Riemann-Liouville loop and the two Hurst estimator cells.     *)
(* Reals are modelled in fixed point (Scale units per 1.0); the values a   *)
(* float can take besides finite ones (nan, +inf, -inf) are kept as such.  *)
(* The ambient generator np.random is a congruential stream whose          *)
(* parameters and seed are chosen in Init.  Timing (perf_counter, times,   *)
(* tmp, rl_time) and figure decoration are not modelled; plt.plot is kept  *)
(* as the hand-over of a path to plotting.                                 *)
(* The earlier copy of the notebook (N = 100, alphas = [0.3, 0.5, 0.8])   *)
(* has the same grid, Brownian and assembly cells and no estimator.        *)
(***************************************************************************)
EXTENDS Integers, Sequences, FiniteSets

\* ------------------------------------------------------------------ bounds
N == 6            \* number of time steps (1000 in the notebook, scaled down)
Scale == 64       \* fixed-point units per 1.0
EpsFx == 16       \* grid start in fixed-point units (10**-5 in the notebook)
RandBits == 3     \* significand bits of a float; random() is a multiple of 2^-RandBits
RngMod == 16      \* modulus of the generator stream
QuadPanels == 4   \* panels of the quadrature rule

\* ------------------------------------------------------- program constants
TEnd == 10        \* grid end, np.linspace(10**-5, 10, N)
BatchSize == 5    \* for n in range(5) / for i in range(5)

RandUnits == 2 ^ RandBits
AlphaDen == 2 * RandUnits   \* alpha is kept as a multiple of 1/AlphaDen
Half == RandUnits           \* 0.5 in units of 1/AlphaDen

Idx == 0 .. (N - 1)

\* ------------------------------------------------------------ float values
Fin(v) == [kind |-> "fin", v |-> v]
NaN == [kind |-> "nan", v |-> 0]
PInf == [kind |-> "inf", v |-> 1]
NInf == [kind |-> "inf", v |-> -1]

IsFin(x) == x.kind = "fin"

Sign(v) == IF v > 0 THEN 1 ELSE IF v < 0 THEN -1 ELSE 0

Abs(v) == IF v < 0 THEN -v ELSE v

FAdd(x, y) ==
  IF x.kind = "nan" \/ y.kind = "nan" THEN NaN
  ELSE IF x.kind = "inf" /\ y.kind = "inf" THEN (IF x.v = y.v THEN x ELSE NaN)
  ELSE IF x.kind = "inf" THEN x
  ELSE IF y.kind = "inf" THEN y
  ELSE Fin(x.v + y.v)

FNeg(x) == IF x.kind = "nan" THEN NaN ELSE [kind |-> x.kind, v |-> -x.v]

FSub(x, y) == FAdd(x, FNeg(y))

FMul(x, y) ==
  IF x.kind = "nan" \/ y.kind = "nan" THEN NaN
  ELSE IF x.kind = "inf" \/ y.kind = "inf"
    THEN (IF x.v = 0 \/ y.v = 0 THEN NaN
          ELSE IF Sign(x.v) = Sign(y.v) THEN PInf ELSE NInf)
  ELSE Fin((x.v * y.v) \div Scale)

FDiv(x, y) ==
  IF x.kind = "nan" \/ y.kind = "nan" THEN NaN
  ELSE IF x.kind = "inf" /\ y.kind = "inf" THEN NaN
  ELSE IF x.kind = "inf"
    THEN (IF Sign(x.v) * (IF y.v < 0 THEN -1 ELSE 1) > 0 THEN PInf ELSE NInf)
  ELSE IF y.kind = "inf" THEN Fin(0)
  ELSE IF y.v = 0
    THEN (IF x.v = 0 THEN NaN ELSE IF x.v > 0 THEN PInf ELSE NInf)
  ELSE Fin((x.v * Scale) \div y.v)

RECURSIVE ISqrtB(_, _, _)
ISqrtB(v, lo, hi) ==
  IF lo >= hi THEN lo
  ELSE LET mid == (lo + hi + 1) \div 2
       IN IF mid * mid <= v THEN ISqrtB(v, mid, hi) ELSE ISqrtB(v, lo, mid - 1)

\* floor of the square root of a natural number
ISqrt(v) == ISqrtB(v, 0, IF v < 46340 THEN v ELSE 46340)

SqrtFx(v) == ISqrt(v * Scale)

MulFx(a, b) == (a * b) \div Scale

RECURSIVE IntPow(_, _)
IntPow(b, q) == IF q = 0 THEN Scale ELSE MulFx(b, IntPow(b, q - 1))

RECURSIVE FracPow(_, _, _)
FracPow(root, r, den) ==
  IF den = 1 THEN Scale
  ELSE LET half == den \div 2
           rt == SqrtFx(root)
       IN IF r >= half THEN MulFx(rt, FracPow(rt, r - half, half))
          ELSE FracPow(rt, r, half)

\* b ** (num/den) as numpy computes a float power: 1 for a zero exponent,
\* nan for a negative base under a fractional exponent, inf for 0 ** negative.
PowFx(b, num, den) ==
  IF num = 0 THEN Fin(Scale)
  ELSE IF b < 0 /\ (Abs(num) % den) # 0 THEN NaN
  ELSE IF b = 0 THEN (IF num > 0 THEN Fin(0) ELSE PInf)
  ELSE LET m == Abs(num)
           mag == MulFx(IntPow(Abs(b), m \div den), FracPow(Abs(b), m % den, den))
           sgn == IF b < 0 /\ ((m \div den) % 2 = 1) THEN -1 ELSE 1
       IN IF num > 0 THEN Fin(sgn * mag)
          ELSE IF mag = 0 THEN PInf ELSE Fin(sgn * ((Scale * Scale) \div mag))

\* ------------------------------------------------------------ the generator
RngParams == {<<1, 0>>, <<5, 3>>, <<3, 7>>}

RngStep(g) == [g EXCEPT !.x = (g.a * g.x + g.c) % RngMod, !.n = g.n + 1]

RECURSIVE RngSkip(_, _)
RngSkip(g, k) == IF k = 0 THEN g ELSE RngSkip(RngStep(g), k - 1)

\* np.random.normal(0, 1) read off the generator state
NormalOf(g) == (g.x % 3) - 1

\* np.random.random() read off the generator state, in units of 1/RandUnits
RandomOf(g) == (g.x * RandUnits) \div RngMod

\* ------------------------------------------------------------ the time grid
\* np.linspace(start, stop, num): step = (stop - start) / (num - 1),
\* y = arange(num) * step + start, and the last element is set to stop.
LinspaceNoEnd(start, stop, num) ==
  LET step == (stop - start) \div (num - 1)
  IN [k \in 0 .. (num - 1) |-> k * step + start]

Linspace(start, stop, num) ==
  LET step == (stop - start) \div (num - 1)
  IN [k \in 0 .. (num - 1) |->
        IF k = num - 1 THEN stop ELSE k * step + start]

VARIABLES
  pc,        \* <<cell, statement>>: where the notebook run stands
  rng,       \* np.random: [x0, a, c] the stream, x its state, n the draws made
  time,      \* time = np.linspace(10**-5, 10, N)
  n, i,      \* loop counters of the sampling loops
  W,         \* the regular Brownian path being built
  lastPlot,  \* the path last handed to plt.plot
  alphas,    \* the sorted list of Hurst parameters (multiples of 1/AlphaDen)
  ai,        \* how many elements of alphas the running loop has consumed
  alpha,     \* the loop variable alpha
  mat_cov,   \* the covariance matrix being assembled
  t, s,      \* loop counters of the assembly loops
  evals,     \* the index pairs the kernel was evaluated for, in order
  quads,     \* the quad calls made for the current matrix
  written,   \* the cells of mat_cov assigned since np.zeros
  C,         \* the Cholesky factor
  Y_list,    \* the batch being sampled
  X_frac,    \* dict alpha -> batch (fractional Brownian motion)
  X_riem,    \* dict alpha -> batch (Riemann-Liouville)
  L,         \* the estimates of the current batch
  report     \* what the estimator cell last printed

vars == <<pc, rng, time, n, i, W, lastPlot, alphas, ai, alpha, mat_cov, t, s,
          evals, quads, written, C, Y_list, X_frac, X_riem, L, report>>

covVars == <<mat_cov, t, s, evals, quads, written>>
hurstVars == <<L, report>>

Len0(f) == Cardinality(DOMAIN f)

NoPath == <<>>

EmptyDict == <<>>

DictPut(d, k, v) == [q \in (DOMAIN d) \cup {k} |-> IF q = k THEN v ELSE d[q]]

Cells == Idx \X Idx

Zeros == [p \in Cells |-> Fin(0)]

IntZeros == [p \in Cells |-> 0]

Init ==
  /\ pc = <<"bm", "for">>
  /\ \E p \in RngParams, x0 \in 0 .. (RngMod - 1) :
       rng = [x0 |-> x0, a |-> p[1], c |-> p[2], x |-> x0, n |-> 0]
  /\ time = Linspace(EpsFx, TEnd * Scale, N)
  /\ n = 0
  /\ i = 0
  /\ W = NoPath
  /\ lastPlot = [fam |-> "none", label |-> 0, path |-> NoPath]
  /\ alphas = <<>>
  /\ ai = 0
  /\ alpha = 0
  /\ mat_cov = Zeros
  /\ t = 0
  /\ s = 0
  /\ evals = <<>>
  /\ quads = <<>>
  /\ written = {}
  /\ C = IntZeros
  /\ Y_list = <<>>
  /\ X_frac = EmptyDict
  /\ X_riem = EmptyDict
  /\ L = <<>>
  /\ report = [cell |-> "none", alpha |-> 0, mean |-> Fin(0), std |-> Fin(0)]

\* ------------------------------------------------- regular Brownian motion
CarriedPath == IF Len0(W) = 0 THEN [k \in {0} |-> 0] ELSE [k \in {0} |-> W[Len0(W) - 1]]

\* W = [0]
FreshPath == [k \in {0} |-> 0]

\* for n in range(5): W = [0]
BMNewPath ==
  /\ pc = <<"bm", "for">>
  /\ n < BatchSize
  /\ W' = FreshPath
  /\ i' = 1
  /\ pc' = <<"bm", "inner">>
  /\ UNCHANGED <<rng, time, n, lastPlot, alphas, ai, alpha, C, Y_list, X_frac, X_riem>>
  /\ UNCHANGED <<covVars, hurstVars>>

\* for i in range(1, N): W.append(W[i-1] + np.random.normal(0, 1))
BMStep ==
  /\ pc = <<"bm", "inner">>
  /\ i < N
  /\ LET g == RngStep(rng)
     IN /\ rng' = g
        /\ W' = [k \in 0 .. Len0(W) |->
                   IF k < Len0(W) THEN W[k] ELSE W[i - 1] + NormalOf(g) * Scale]
  /\ i' = i + 1
  /\ UNCHANGED <<pc, time, n, lastPlot, alphas, ai, alpha, C, Y_list, X_frac, X_riem>>
  /\ UNCHANGED <<covVars, hurstVars>>

\* plt.plot(time, W, label=f'W{n+1}')
BMPlot ==
  /\ pc = <<"bm", "inner">>
  /\ i >= N
  /\ lastPlot' = [fam |-> "bm", label |-> n + 1, path |-> W]
  /\ n' = n + 1
  /\ pc' = <<"bm", "for">>
  /\ UNCHANGED <<rng, time, i, W, alphas, ai, alpha, C, Y_list, X_frac, X_riem>>
  /\ UNCHANGED <<covVars, hurstVars>>

BMDone ==
  /\ pc = <<"bm", "for">>
  /\ n >= BatchSize
  /\ pc' = <<"alphas", "cell">>
  /\ UNCHANGED <<rng, time, n, i, W, lastPlot, alphas, ai, alpha, C, Y_list, X_frac, X_riem>>
  /\ UNCHANGED <<covVars, hurstVars>>

\* ------------------------------------------------------------ the alpha list
\* np.random.random() / 2: exact (a float halves without rounding)
LowAlpha(r) == r

\* 0.5 + np.random.random() / 2: the sum has one bit more than a significand
\* holds when r is odd, and rounds to the neighbour with the even significand
HighAlpha(r) ==
  LET v == Half + r
  IN IF r % 2 = 0 THEN v
     ELSE IF ((v - 1) \div 2) % 2 = 0 THEN v - 1 ELSE v + 1

RECURSIVE Insert(_, _)
Insert(sq, v) ==
  IF sq = <<>> THEN <<v>>
  ELSE IF v < Head(sq) THEN <<v>> \o sq
  ELSE <<Head(sq)>> \o Insert(Tail(sq), v)

RECURSIVE SortAsc(_)
SortAsc(sq) == IF sq = <<>> THEN <<>> ELSE Insert(SortAsc(Tail(sq)), Head(sq))

\* alphas = [random()/2, random()/2, 0.5, 0.5 + random()/2, 0.5 + random()/2]
AlphaList(g) ==
  <<LowAlpha(RandomOf(RngSkip(g, 1))), LowAlpha(RandomOf(RngSkip(g, 2))), Half,
    HighAlpha(RandomOf(RngSkip(g, 3))), HighAlpha(RandomOf(RngSkip(g, 4)))>>

\* the alphas cell: build the list, alphas.sort()
AlphasCell ==
  /\ pc = <<"alphas", "cell">>
  /\ alphas' = SortAsc(AlphaList(rng))
  /\ rng' = RngSkip(rng, 4)
  /\ pc' = <<"frac", "begin">>
  /\ UNCHANGED <<time, n, i, W, lastPlot, ai, alpha, C, Y_list, X_frac, X_riem>>
  /\ UNCHANGED <<covVars, hurstVars>>

\* ------------------------------------------------------ covariance kernels
\* 0.5 * x
FHalf(x) == IF IsFin(x) THEN Fin(x.v \div 2) ELSE x

\* 0.5 * (time[t] ** (2 * alpha) + time[s] ** (2 * alpha)
\*        - np.abs(time[t] - time[s]) ** (2 * alpha))
FracKernel(al, tt, ss) ==
  FHalf(FSub(FAdd(PowFx(time[tt], 2 * al, AlphaDen), PowFx(time[ss], 2 * al, AlphaDen)),
             PowFx(Abs(time[tt] - time[ss]), 2 * al, AlphaDen)))

\* lambda x: (time[t] - x) ** (alpha - 0.5) * (time[s] - x) ** (alpha - 0.5)
Integrand(al, tt, ss, x) ==
  FMul(PowFx(time[tt] - x, al - Half, AlphaDen), PowFx(time[ss] - x, al - Half, AlphaDen))

RECURSIVE FSumSeq(_)
FSumSeq(sq) == IF sq = <<>> THEN Fin(0) ELSE FAdd(Head(sq), FSumSeq(Tail(sq)))

\* the k-th node of the rule on [a, b]: the midpoint of the k-th panel
QuadNode(a, b, k) == a + ((2 * k + 1) * (b - a)) \div (2 * QuadPanels)

\* quad(lambda x: ..., a, b)[0] for the integrand of (al, tt, ss): the
\* integrand is evaluated at interior nodes only
Quad(al, tt, ss, a, b) ==
  FMul(FSumSeq([k \in 1 .. QuadPanels |-> Integrand(al, tt, ss, QuadNode(a, b, k - 1))]),
       Fin((b - a) \div QuadPanels))

\* the bounds handed to quad: 0, time[s]
QuadLower == 0

QuadUpperT(tt, ss) == time[tt]

QuadUpper(tt, ss) == time[ss]

RiemKernel(al, tt, ss) == Quad(al, tt, ss, QuadLower, QuadUpper(tt, ss))

Kernel(fam, al, tt, ss) ==
  IF fam = "frac" THEN FracKernel(al, tt, ss) ELSE RiemKernel(al, tt, ss)

\* mat_cov[t, s] = <kernel>; mat_cov[s, t] = mat_cov[t, s]
AssignCovNoMirror(m, tt, ss, val) == [m EXCEPT ![<<tt, ss>>] = val]

AssignCov(m, tt, ss, val) == [m EXCEPT ![<<tt, ss>>] = val, ![<<ss, tt>>] = val]

WrittenBy(tt, ss) == {<<tt, ss>>, <<ss, tt>>}

\* the inner loop leaves its row after (t, s): `if (s > t): break` on the
\* next s, or range(N) is exhausted
RowEnds(tt, ss) == ss + 1 > tt \/ ss + 1 >= N

\* ------------------------------------------------------ np.linalg.cholesky
RECURSIVE RowDot(_, _, _, _)
RowDot(Lm, r, c, k) ==
  IF k = 0 THEN 0
  ELSE Lm[<<r, k - 1>>] * Lm[<<c, k - 1>>] + RowDot(Lm, r, c, k - 1)

RECURSIVE CholFill(_, _, _, _)
CholFill(A, Lm, r, c) ==
  IF r >= N THEN [ok |-> TRUE, L |-> Lm]
  ELSE LET d == A[<<r, c>>].v * Scale - RowDot(Lm, r, c, c)
       IN IF c = r
            THEN (IF d <= 0 THEN [ok |-> FALSE, L |-> Lm]
                  ELSE CholFill(A, [Lm EXCEPT ![<<r, r>>] = ISqrt(d)], r + 1, 0))
            ELSE CholFill(A, [Lm EXCEPT ![<<r, c>>] = d \div Lm[<<c, c>>]], r, c + 1)

\* the lower factor, or LinAlgError (ok = FALSE) when a pivot is not positive
Cholesky(A) ==
  IF \A p \in Cells : IsFin(A[p]) THEN CholFill(A, IntZeros, 0, 0)
  ELSE [ok |-> FALSE, L |-> IntZeros]

\* ---------------------------------------------------------------- sampling
\* np.random.normal(0, 1, N)
Noise(g) == [k \in Idx |-> NormalOf(RngSkip(g, k + 1))]

RECURSIVE DotSum(_, _, _, _)
DotSum(Cm, z, r, k) ==
  IF k = 0 THEN 0 ELSE Cm[<<r, k - 1>>] * z[k - 1] + DotSum(Cm, z, r, k - 1)

\* np.dot(C, z)
Dot(Cm, z) == [r \in Idx |-> DotSum(Cm, z, r, N)]

SamplePathNoPin(Cm, g) == Dot(Cm, Noise(g))

\* Y = np.dot(C, np.random.normal(0, 1, N)); Y[0] = 0
SamplePath(Cm, g) == [Dot(Cm, Noise(g)) EXCEPT ![0] = 0]

\* X_frac[alpha] = Y_list
StoreBatch(d, al, batch) == DictPut(d, al, batch)

\* ------------------------------------- the loops over alphas (both families)
NextCell(fam) == IF fam = "frac" THEN <<"riem", "begin">> ELSE <<"hurst_frac", "for">>

\* tmp = []; X_frac = {}    (X_riem = {} in the Riemann-Liouville cell)
Begin(fam) ==
  /\ pc = <<fam, "begin">>
  /\ IF fam = "frac"
       THEN X_frac' = EmptyDict /\ UNCHANGED X_riem
       ELSE X_riem' = EmptyDict /\ UNCHANGED X_frac
  /\ ai' = 0
  /\ pc' = <<fam, "for">>
  /\ UNCHANGED <<rng, time, n, i, W, lastPlot, alphas, alpha, C, Y_list>>
  /\ UNCHANGED <<covVars, hurstVars>>

\* for alpha in alphas: Y_list = []; mat_cov = np.zeros((N, N))
For(fam) ==
  /\ pc = <<fam, "for">>
  /\ ai < Len(alphas)
  /\ alpha' = alphas[ai + 1]
  /\ Y_list' = <<>>
  /\ mat_cov' = Zeros
  /\ t' = 0
  /\ s' = 0
  /\ evals' = <<>>
  /\ quads' = <<>>
  /\ written' = {}
  /\ pc' = <<fam, "cov">>
  /\ UNCHANGED <<rng, time, n, i, W, lastPlot, alphas, ai, C, X_frac, X_riem>>
  /\ UNCHANGED hurstVars

\* one pass of the body of `for t in range(N): for s in range(N):`
CovStep(fam) ==
  /\ pc = <<fam, "cov">>
  /\ t < N
  /\ mat_cov' = AssignCov(mat_cov, t, s, Kernel(fam, alpha, t, s))
  /\ written' = written \cup WrittenBy(t, s)
  /\ evals' = Append(evals, <<t, s>>)
  /\ quads' = IF fam = "riem"
                THEN Append(quads, [t |-> t, s |-> s, a |-> QuadLower, b |-> QuadUpper(t, s)])
                ELSE quads
  /\ t' = IF RowEnds(t, s) THEN t + 1 ELSE t
  /\ s' = IF RowEnds(t, s) THEN 0 ELSE s + 1
  /\ UNCHANGED <<pc, rng, time, n, i, W, lastPlot, alphas, ai, alpha, C, Y_list,
                 X_frac, X_riem>>
  /\ UNCHANGED hurstVars

\* C = np.linalg.cholesky(mat_cov)
CholOk(fam) ==
  /\ pc = <<fam, "cov">>
  /\ t >= N
  /\ Cholesky(mat_cov).ok
  /\ C' = Cholesky(mat_cov).L
  /\ i' = 0
  /\ pc' = <<fam, "sample">>
  /\ UNCHANGED <<rng, time, n, W, lastPlot, alphas, ai, alpha, Y_list, X_frac, X_riem>>
  /\ UNCHANGED <<covVars, hurstVars>>

\* np.linalg.cholesky raises LinAlgError: nothing catches it, the run stops
CholFail(fam) ==
  /\ pc = <<fam, "cov">>
  /\ t >= N
  /\ ~Cholesky(mat_cov).ok
  /\ pc' = <<fam, "LinAlgError">>
  /\ UNCHANGED <<rng, time, n, i, W, lastPlot, alphas, ai, alpha, C, Y_list,
                 X_frac, X_riem>>
  /\ UNCHANGED <<covVars, hurstVars>>

\* for i in range(5): Y = ...; Y[0] = 0; plt.plot(time, Y, ...); Y_list.append(Y)
Sample(fam) ==
  /\ pc = <<fam, "sample">>
  /\ i < BatchSize
  /\ LET Y == SamplePath(C, rng)
     IN /\ lastPlot' = [fam |-> fam, label |-> i + 1, path |-> Y]
        /\ Y_list' = Append(Y_list, Y)
  /\ rng' = RngSkip(rng, N)
  /\ i' = i + 1
  /\ UNCHANGED <<pc, time, n, W, alphas, ai, alpha, C, X_frac, X_riem>>
  /\ UNCHANGED <<covVars, hurstVars>>

\* X_frac[alpha] = Y_list   (X_riem[alpha] = Y_list)
Store(fam) ==
  /\ pc = <<fam, "sample">>
  /\ i >= BatchSize
  /\ IF fam = "frac"
       THEN X_frac' = StoreBatch(X_frac, alpha, Y_list) /\ UNCHANGED X_riem
       ELSE X_riem' = StoreBatch(X_riem, alpha, Y_list) /\ UNCHANGED X_frac
  /\ ai' = ai + 1
  /\ pc' = <<fam, "for">>
  /\ UNCHANGED <<rng, time, n, i, W, lastPlot, alphas, alpha, C, Y_list>>
  /\ UNCHANGED <<covVars, hurstVars>>

\* the list is exhausted: on to the next cell
LoopEnd(fam) ==
  /\ pc = <<fam, "for">>
  /\ ai >= Len(alphas)
  /\ pc' = NextCell(fam)
  /\ ai' = 0
  /\ UNCHANGED <<rng, time, n, i, W, lastPlot, alphas, alpha, C, Y_list, X_frac, X_riem>>
  /\ UNCHANGED <<covVars, hurstVars>>

FracBegin == Begin("frac")
FracFor == For("frac")
FracCovStep == CovStep("frac")
FracCholOk == CholOk("frac")
FracCholFail == CholFail("frac")
FracSample == Sample("frac")
FracStore == Store("frac")
FracLoopEnd == LoopEnd("frac")

RiemBegin == Begin("riem")
RiemFor == For("riem")
RiemCovStep == CovStep("riem")
RiemCholOk == CholOk("riem")
RiemCholFail == CholFail("riem")
RiemSample == Sample("riem")
RiemStore == Store("riem")
RiemLoopEnd == LoopEnd("riem")

\* ------------------------------------------------------ the Hurst estimator
S1Start == 5      \* for i in range(5, len(X))
S2Start == 3      \* for i in range(3, len(X))

\* np.abs(d) ** 2
Sq(d) == (Abs(d) * Abs(d)) \div Scale

RECURSIVE S1Loop(_, _)
S1Loop(X, k) ==
  IF k >= Len0(X) THEN 0
  ELSE Sq(X[k] - 2 * X[k - 2] + X[k - 4]) + S1Loop(X, k + 1)

RECURSIVE S2Loop(_, _)
S2Loop(X, k) ==
  IF k >= Len0(X) THEN 0
  ELSE Sq(X[k] - 2 * X[k - 1] + X[k - 2]) + S2Loop(X, k + 1)

S1From4(X) == S1Loop(X, 4)

\* s1 = 0; for i in range(5, len(X)): s1 += np.abs(X[i] - 2*X[i-2] + X[i-4]) ** 2
S1(X) == S1Loop(X, S1Start)

\* s2 = 0; for i in range(3, len(X)): s2 += np.abs(X[i] - 2*X[i-1] + X[i-2]) ** 2
S2(X) == S2Loop(X, S2Start)

RECURSIVE LogFrac(_, _)
LogFrac(y, w) ==
  IF w = 0 THEN 0
  ELSE LET y2 == (y * y) \div Scale
       IN IF y2 >= 2 * Scale THEN w + LogFrac(y2 \div 2, w \div 2)
          ELSE LogFrac(y2, w \div 2)

\* log2 of a positive fixed-point number
RECURSIVE Log2Fx(_)
Log2Fx(v) ==
  IF v >= 2 * Scale THEN Scale + Log2Fx(v \div 2)
  ELSE IF v < Scale THEN Log2Fx(2 * v) - Scale
  ELSE LogFrac(v, Scale \div 2)

\* np.log(x) / np.log(2): nan below zero, -inf at zero
FLog2(x) ==
  IF x.kind = "nan" THEN NaN
  ELSE IF x.kind = "inf" THEN (IF x.v > 0 THEN PInf ELSE NaN)
  ELSE IF x.v < 0 THEN NaN
  ELSE IF x.v = 0 THEN NInf
  ELSE Fin(Log2Fx(x.v))

AlphaFx(al) == (al * Scale) \div AlphaDen

\* np.log(s1 / s2) / (2 * np.log(2)) - alpha
Estimate(X, al) == FSub(FHalf(FLog2(FDiv(Fin(S1(X)), Fin(S2(X))))), Fin(AlphaFx(al)))

\* np.mean(L)
FMean(sq) == FDiv(FSumSeq(sq), Fin(Len(sq) * Scale))

FSqrt(x) ==
  IF x.kind = "nan" THEN NaN
  ELSE IF x.kind = "inf" THEN (IF x.v > 0 THEN PInf ELSE NaN)
  ELSE IF x.v < 0 THEN NaN
  ELSE Fin(SqrtFx(x.v))

\* np.std(L)
FStd(sq) ==
  LET m == FMean(sq)
  IN FSqrt(FMean([k \in 1 .. Len(sq) |-> FMul(FSub(sq[k], m), FSub(sq[k], m))]))

HCell(fam) == IF fam = "frac" THEN "hurst_frac" ELSE "hurst_riem"

Batches(fam) == IF fam = "frac" THEN X_frac ELSE X_riem

\* the batch `for X in X_frac[alpha]` iterates over
BatchRead(fam, al) == Batches(fam)[al]

\* for alpha in alphas: L = []
HurstFor(fam) ==
  /\ pc = <<HCell(fam), "for">>
  /\ ai < Len(alphas)
  /\ alpha' = alphas[ai + 1]
  /\ L' = <<>>
  /\ pc' = <<HCell(fam), "paths">>
  /\ UNCHANGED <<rng, time, n, i, W, lastPlot, alphas, ai, C, Y_list, X_frac, X_riem,
                 report>>
  /\ UNCHANGED covVars

\* one pass of the body of `for X in X_frac[alpha]`
HurstPath(fam) ==
  /\ pc = <<HCell(fam), "paths">>
  /\ Len(L) < Len(BatchRead(fam, alpha))
  /\ L' = Append(L, Estimate(BatchRead(fam, alpha)[Len(L) + 1], alpha))
  /\ i' = N - 1
  /\ UNCHANGED <<pc, rng, time, n, W, lastPlot, alphas, ai, alpha, C, Y_list, X_frac,
                 X_riem, report>>
  /\ UNCHANGED covVars

\* print(f'For alpha = {alpha}: centered mean={np.mean(L)} and standard deviation={np.std(L)}')
HurstPrint(fam) ==
  /\ pc = <<HCell(fam), "paths">>
  /\ Len(L) >= Len(BatchRead(fam, alpha))
  /\ report' = [cell |-> HCell(fam), alpha |-> alpha, mean |-> FMean(L), std |-> FStd(L)]
  /\ ai' = ai + 1
  /\ pc' = <<HCell(fam), "for">>
  /\ UNCHANGED <<rng, time, n, i, W, lastPlot, alphas, alpha, C, Y_list, X_frac, X_riem, L>>
  /\ UNCHANGED covVars

HurstEnd(fam) ==
  /\ pc = <<HCell(fam), "for">>
  /\ ai >= Len(alphas)
  /\ pc' = IF fam = "frac" THEN <<"hurst_riem", "for">> ELSE <<"done", "end">>
  /\ ai' = 0
  /\ UNCHANGED <<rng, time, n, i, W, lastPlot, alphas, alpha, C, Y_list, X_frac, X_riem>>
  /\ UNCHANGED <<covVars, hurstVars>>

HurstFracFor == HurstFor("frac")
HurstFracPath == HurstPath("frac")
HurstFracPrint == HurstPrint("frac")
HurstFracEnd == HurstEnd("frac")

HurstRiemFor == HurstFor("riem")
HurstRiemPath == HurstPath("riem")
HurstRiemPrint == HurstPrint("riem")
HurstRiemEnd == HurstEnd("riem")

Next ==
  \/ BMNewPath \/ BMStep \/ BMPlot \/ BMDone
  \/ AlphasCell
  \/ FracBegin \/ FracFor \/ FracCovStep \/ FracCholOk \/ FracCholFail
  \/ FracSample \/ FracStore \/ FracLoopEnd
  \/ RiemBegin \/ RiemFor \/ RiemCovStep \/ RiemCholOk \/ RiemCholFail
  \/ RiemSample \/ RiemStore \/ RiemLoopEnd
  \/ HurstFracFor \/ HurstFracPath \/ HurstFracPrint \/ HurstFracEnd
  \/ HurstRiemFor \/ HurstRiemPath \/ HurstRiemPrint \/ HurstRiemEnd

Spec == Init /\ [][Next]_vars

\* ================================================================== claims
Max(a, b) == IF a >= b THEN a ELSE b
Min(a, b) == IF a <= b THEN a ELSE b

SeqRange(sq) == {sq[k] : k \in DOMAIN sq}

\* k steps of x -> a x + c (mod RngMod) as one affine map <<a^k, c (a^(k-1) + ... + 1)>>
RECURSIVE AffPow(_, _, _)
AffPow(a, c, k) ==
  IF k = 0 THEN <<1, 0>>
  ELSE IF k % 2 = 0
    THEN LET h == AffPow(a, c, k \div 2)
         IN <<(h[1] * h[1]) % RngMod, (h[1] * h[2] + h[2]) % RngMod>>
    ELSE LET h == AffPow(a, c, k - 1)
         IN <<(a * h[1]) % RngMod, (a * h[2] + c) % RngMod>>

\* the generator of g's stream after its first k draws
StreamAt(g, k) ==
  LET m == AffPow(g.a, g.c, k)
  IN [g EXCEPT !.x = (m[1] * g.x0 + m[2]) % RngMod, !.n = k]

\* the k-th normal draw of g's stream (k >= 1)
NormalAt(g, k) == NormalOf(StreamAt(g, k))

StoredPaths(d) == UNION {SeqRange(d[a]) : a \in DOMAIN d}

\* every path handed to plt.plot or kept in a batch
HandedPaths ==
  (IF lastPlot.fam = "none" THEN {} ELSE {lastPlot.path})
    \cup SeqRange(Y_list) \cup StoredPaths(X_frac) \cup StoredPaths(X_riem)

\* C1: every sample path of the three generators is exactly 0 at index 0 when
\* it is handed to plotting or stored in a batch, whatever the projection
\* through the Cholesky factor produced there.
C1_PathStartsAtZero == \A p \in HandedPaths : p[0] = 0

\* the stream position is the state the generator is in
StreamConsistent == rng = StreamAt(rng, rng.n)

\* the generator as it stood before the last np.random.normal(0, 1, N)
RngBeforeLastSample == StreamAt(rng, rng.n - N)

\* C1 witness: a Riemann-Liouville path was sampled whose projection was not
\* zero at index 0, and it is stored with 0 there.
C1_Witness ==
  /\ pc = <<"riem", "sample">>
  /\ Len(Y_list) >= 1
  /\ Dot(C, Noise(RngBeforeLastSample))[0] # 0
  /\ Y_list[Len(Y_list)][0] = 0
  /\ lastPlot.path = Y_list[Len(Y_list)]

\* the second difference of X at index k with the given lag, squared
SecondDiffSq(X, k, lag) ==
  LET d == X[k] - 2 * X[k - lag] + X[k - 2 * lag]
  IN (d * d) \div Scale

RECURSIVE SumOfSet(_, _, _)
SumOfSet(X, lag, ks) ==
  IF ks = {} THEN 0
  ELSE LET k == CHOOSE q \in ks : TRUE
       IN SecondDiffSq(X, k, lag) + SumOfSet(X, lag, ks \ {k})

\* log(s1/s2)/(2 log 2) - alpha with s1 summed from index from1 (lag 2) and
\* s2 from index from2 (lag 1), both up to N-1
OffsetFrom(X, al, from1, from2) ==
  LET s1 == SumOfSet(X, 2, from1 .. (N - 1))
      s2 == SumOfSet(X, 1, from2 .. (N - 1))
  IN FSub(FHalf(FLog2(FDiv(Fin(s1), Fin(s2)))), Fin(AlphaFx(al)))

InHurstPaths == pc \in {<<"hurst_frac", "paths">>, <<"hurst_riem", "paths">>}

HurstFam == IF pc[1] = "hurst_frac" THEN "frac" ELSE "riem"

\* the batch the estimator cell is working through
HurstBatch == Batches(HurstFam)[alpha]

\* C2 as stated: s1 runs over i = 4..N-1 and s2 over i = 2..N-1.
C2_SumsFrom4And2 ==
  InHurstPaths =>
    \A k \in DOMAIN L : L[k] = OffsetFrom(HurstBatch[k], alpha, 4, 2)

\* C2 amended: s1 is the sum of |X[i] - 2 X[i-2] + X[i-4]|^2 over i = 5..N-1
\* and s2 the sum of |X[i] - 2 X[i-1] + X[i-2]|^2 over i = 3..N-1 (neither sum
\* reads X[0]); the offset is log(s1/s2)/(2 log 2) minus the alpha of the batch.
C2_SumsFrom5And3 ==
  InHurstPaths =>
    \A k \in DOMAIN L : L[k] = OffsetFrom(HurstBatch[k], alpha, 5, 3)

\* C2 witness: an estimate was appended for a path whose terms at i = 4 and
\* i = 2 are not zero, so the start of the ranges shows in the result.
C2_Witness ==
  /\ InHurstPaths
  /\ Len(L) >= 1
  /\ IsFin(L[1])
  /\ SecondDiffSq(HurstBatch[1], 4, 2) # 0
  /\ SecondDiffSq(HurstBatch[1], 2, 1) # 0
  /\ L[1] # OffsetFrom(HurstBatch[1], alpha, 4, 2)

AssemblyDone == pc[2] = "cov" /\ t >= N

\* C3: when the assembly loop finishes the matrix is symmetric and fully
\* populated, every entry is the one kernel value computed for
\* (max(i,j), min(i,j)), and the kernel was evaluated once per pair j <= i
\* and never for j > i.
C3_SymmetricPopulated ==
  AssemblyDone =>
    /\ \A a \in Idx, b \in Idx :
         /\ IsFin(mat_cov[<<a, b>>])
         /\ mat_cov[<<a, b>>] = mat_cov[<<b, a>>]
         /\ mat_cov[<<a, b>>] = Kernel(pc[1], alpha, Max(a, b), Min(a, b))
         /\ <<a, b>> \in written
    /\ \A k \in DOMAIN evals : evals[k][2] <= evals[k][1]
    /\ \A a \in Idx : \A b \in 0 .. a :
         Cardinality({k \in DOMAIN evals : evals[k] = <<a, b>>}) = 1

\* C3 witness: a finished Riemann-Liouville matrix whose corner above the
\* diagonal holds a non-zero value.
C3_Witness ==
  /\ pc = <<"riem", "cov">>
  /\ t >= N
  /\ mat_cov[<<0, N - 1>>] # Fin(0)
  /\ Kernel("riem", alpha, 0, N - 1) # Kernel("riem", alpha, N - 1, 0)

\* C4: when the factorization fails for one alpha, every other alpha of the
\* list is still processed (its batch is sampled and stored).
C4_OtherUnitsProcessed ==
  pc[2] = "LinAlgError" =>
    \A k \in DOMAIN alphas : alphas[k] = alpha \/ alphas[k] \in DOMAIN Batches(pc[1])

\* C5: a path whose lag-1 second differences are all zero (s2 = 0) yields an
\* undefined outcome kept out of the aggregated list: no infinity or NaN
\* enters L.
C5_DegenerateExcluded ==
  InHurstPaths =>
    \A k \in DOMAIN L : S2(HurstBatch[k]) = 0 => IsFin(L[k])

\* C6: every alpha a covariance matrix is built with lies strictly inside
\* (0, 1) when the covariance loop starts.
C6_AlphaInOpenInterval ==
  pc[2] = "cov" => (0 < alpha /\ alpha < AlphaDen)

\* C7: the grid has exactly N elements, is strictly increasing, starts at
\* eps (> 0) and ends at T, and no later step modifies it.
C7_GridShape ==
  /\ DOMAIN time = Idx
  /\ Len0(time) = N
  /\ \A k \in 1 .. (N - 1) : time[k - 1] < time[k]
  /\ time[0] = EpsFx
  /\ time[0] > 0
  /\ time[N - 1] = TEnd * Scale
  /\ time = Linspace(EpsFx, TEnd * Scale, N)

\* C7 witness: the whole notebook has run and the grid is as built.
C7_Witness ==
  /\ pc = <<"done", "end">>
  /\ time[0] = EpsFx
  /\ time[N - 1] = TEnd * Scale

RECURSIVE NormalSum(_, _, _)
NormalSum(g, from, to) ==
  IF from > to THEN 0 ELSE NormalAt(g, from) + NormalSum(g, from + 1, to)

\* C8: each regular Brownian path is a prefix sum started afresh: N elements,
\* W[0] = 0, W[i] = W[i-1] + Z_i with Z_i the i-th increment drawn for that
\* path, N-1 draws per path, nothing carried over from the path before.
C8_PrefixSum ==
  /\ lastPlot.fam = "bm" =>
       LET p == lastPlot.path
           first == (lastPlot.label - 1) * (N - 1)
       IN /\ DOMAIN p = Idx
          /\ p[0] = 0
          /\ \A k \in 1 .. (N - 1) : p[k] = p[k - 1] + NormalAt(rng, first + k) * Scale
  /\ pc = <<"bm", "for">> => rng.n = n * (N - 1)

\* C8 witness: the second path was plotted after a first path that ended
\* away from zero.
C8_Witness ==
  /\ pc = <<"bm", "for">>
  /\ lastPlot.fam = "bm"
  /\ lastPlot.label = 2
  /\ NormalSum(rng, 1, N - 1) # 0
  /\ lastPlot.path[N - 1] # 0

\* C9: every quad call of the Riemann-Liouville assembly is made for s <= t
\* over [0, time[s]] with 0 < time[s] <= time[t]; on that interval both bases
\* are non-negative and a base is zero only at the upper endpoint.  (The
\* points of the interval are walked for the call just made: every call is
\* the last of the log in the state that follows it.)
C9_QuadInterval ==
  \A k \in DOMAIN quads :
    LET c == quads[k]
    IN /\ c.s <= c.t
       /\ c.a = 0
       /\ c.b = time[c.s]
       /\ 0 < c.b
       /\ c.b <= time[c.t]
       /\ k = Len(quads) =>
            \A x \in c.a .. c.b :
              /\ time[c.t] - x >= 0
              /\ time[c.s] - x >= 0
              /\ (time[c.t] - x = 0 \/ time[c.s] - x = 0) => x = c.b

\* C9 witness: a call was made below the diagonal with a negative exponent.
C9_Witness ==
  /\ pc = <<"riem", "cov">>
  /\ alpha < Half
  /\ \E k \in DOMAIN quads : quads[k].s < quads[k].t /\ quads[k].b < time[quads[k].t]

\* C10: after a loop over the whole alpha list the store holds one batch of
\* 5 paths of length N per element of the list.
C10_OneBatchPerElement ==
  /\ pc = <<"riem", "begin">> =>
       /\ Cardinality(DOMAIN X_frac) = Len(alphas)
       /\ \A a \in DOMAIN X_frac : Len(X_frac[a]) = BatchSize
  /\ pc = <<"hurst_frac", "for">> =>
       /\ Cardinality(DOMAIN X_riem) = Len(alphas)
       /\ \A a \in DOMAIN X_riem : Len(X_riem[a]) = BatchSize
====
